---- MODULE Spec2Model ----
(***************************************************************************)
(* Knowledge-base sync engine (rag/sync.py) over the kb_chunks and         *)
(* kb_sources tables (core/database.py), with the remote file store it     *)
(* lists and downloads from (rag/loader.py).                               *)
(*                                                                         *)
(* One sync pass runs at a time.  The remote store, the store clock and a  *)
(* reader of kb_chunks run concurrently with it.  Every store statement   *)
(* of sync_drive is one step; a store transaction works on a private       *)
(* delta that becomes visible at its commit.  The remote and the store     *)
(* read their timestamps off one clock.                                    *)
(***************************************************************************)
EXTENDS Integers, Sequences, FiniteSets, TLC

\* ------------------------------------------------------------------ bounds
MaxClock == 2
MaxGen == 2
MaxTopK == 2
MaxCandidates == 3
MaxText == 3
MaxChunkSize == 3

\* ------------------------------------------------------------- environment
Files == {"f1", "f2"}
FileOrder == <<"f1", "f2">>

\* The contents a remote file can have: 0 parses to whitespace, 1 to a text of
\* one chunk, 2 to a text of two chunks (stored under another name and folder).
Versions == {0, 1, 2}

\* The first file is created, changed and deleted at the remote.  The second
\* one is there to be another file of every pass: it never changes.
Mutable == {"f1"}

RemoteName(f, v) ==
    IF f = "f1" THEN (IF v = 2 THEN "a2.txt" ELSE "a.txt")
                ELSE (IF v = 2 THEN "b2.txt" ELSE "b.txt")

RemoteCategory(f, v) == IF v = 2 THEN "projects" ELSE "general"

Absent == [present |-> FALSE, ver |-> 0, mtime |-> 0]

\* ---------------------------------------------------------------- database
NoSource ==
    [filename |-> "", category |-> "", modified_time |-> 0, last_synced |-> 0,
     chunk_count |-> 0, status |-> "none"]

NoTx == [open |-> FALSE, deleted |-> {}, inserted |-> {}]

\* The second call of sync_drive when it is not at work on a file.
NoOther ==
    [pc |-> "idle", id |-> "", name |-> "", category |-> "", modified_time |-> 0,
     chunks |-> <<>>, deleted |-> {}, inserted |-> 0]

VARIABLES
    remote,            \* the remote file store: file id -> [present, ver, mtime]
    now,               \* the store's clock, NOW()
    kb_chunks,         \* committed rows of kb_chunks
    kb_sources,        \* committed rows of kb_sources, by file_id
    gen,               \* gen_random_uuid(): the batches of ids handed out
    pc,                \* where sync_drive is
    force,             \* its argument
    drive_files,       \* its listing
    existing_sources,  \* its snapshot of kb_sources
    deleted_ids,
    k,                 \* position of the loop in drive_files
    files_synced,
    files_skipped,
    chunks_inserted,
    errors,
    chunks,            \* its chunks
    inserted,
    tx,                \* the open transaction's uncommitted delta
    outcome,           \* how the last call of sync_drive ended
    pre_rows,          \* history: the current file's rows when its step began
    raised,            \* history: the files whose step raised in this pass
    start_chunks,      \* history: kb_chunks when the pass listed the remote
    dirty,             \* history: the remote dirty since the pass listed it
    good,              \* history: the store was consistent when the pass listed it
    prev,              \* history: how the call before this one ended
    ever_written,      \* history: files some pass committed chunks for
    no_text,           \* history: the files this pass gave up for having no text
    written,           \* history: the files this pass synced, each with the
                       \* number of chunks its transaction reported
    view,              \* what a reader saw of the file being replaced
    rpc,               \* where retrieve is
    top_k,             \* its arguments, after their defaults
    candidates,
    threshold,
    categories,
    rerank_enabled,    \* config.rerank_enabled
    hybrid_sparse_weight,  \* config.hybrid_sparse_weight
    dense,             \* its locals
    sparse,
    fused,
    reranked,          \* history: the reranking client was called
    cpc,               \* where chunk_text is
    txt,               \* its arguments: the text, a sequence of characters,
    chunk_size,
    overlap,
    result,            \* what it returns
    other              \* a second call of sync_drive, at work on one file

locals ==
    <<force, drive_files, existing_sources, deleted_ids, k, files_synced,
      files_skipped, chunks_inserted, errors, chunks, inserted>>
history ==
    <<pre_rows, raised, start_chunks, dirty, good, prev, ever_written, no_text,
      written>>
store == <<kb_chunks, kb_sources, gen>>
retrieval ==
    <<rpc, top_k, candidates, threshold, categories, rerank_enabled,
      hybrid_sparse_weight, dense, sparse, fused, reranked>>
chunking == <<cpc, txt, chunk_size, overlap, result>>
syncing ==
    <<remote, now, kb_sources, gen, pc, locals, tx, outcome, history, view,
      other>>
\* What the steps of sync_drive leave alone.
aside == <<retrieval, chunking, other>>
vars ==
    <<remote, now, kb_chunks, kb_sources, gen, pc, force, drive_files,
      existing_sources, deleted_ids, k, files_synced, files_skipped,
      chunks_inserted, errors, chunks, inserted, tx, outcome, pre_rows,
      raised, start_chunks, dirty, good, prev, ever_written, no_text, written,
      view, rpc, top_k,
      candidates, threshold, categories, rerank_enabled, hybrid_sparse_weight,
      dense, sparse, fused, reranked, cpc, txt, chunk_size, overlap, result,
      other>>

\* ----------------------------------------------------------------- helpers
Range(s) == {s[i] : i \in 1..Len(s)}

FileRows(rows, f) == {r \in rows : r.drive_file_id = f}

\* ------------------------------------------------------------ rag/loader.py
\* list_drive_files: one DriveFileRecord per file the remote holds.
RECURSIVE ListFrom(_, _)
ListFrom(rem, i) ==
    IF i > Len(FileOrder) THEN <<>>
    ELSE LET f == FileOrder[i] IN
         (IF rem[f].present
          THEN <<[id |-> f, name |-> RemoteName(f, rem[f].ver),
                  category |-> RemoteCategory(f, rem[f].ver),
                  modified_time |-> rem[f].mtime]>>
          ELSE <<>>) \o ListFrom(rem, i + 1)

list_drive_files(rem) == ListFrom(rem, 1)

\* parse_content: the text of the downloaded bytes.
parse_content(v) ==
    CASE v = 0 -> "  "
      [] v = 1 -> "alpha"
      [] OTHER -> "beta gamma"

\* "if not text" in place of "if not text.strip()".
strip_nothing(text) == text

strip(text) == IF text = "  " THEN "" ELSE text

\* ---------------------------------------------------------- rag/chunking.py
chunk_text(text) ==
    CASE strip(text) = "" -> <<>>
      [] text = "alpha" -> <<"alpha">>
      [] OTHER -> <<"beta", "gamma">>

\* -------------------------------------------------------------- rag/sync.py
\* _get_all_kb_sources: every kb_sources row keyed by file_id (a file without
\* a row reads as NoSource, the None of existing_sources.get).
_get_all_kb_sources(sources) == sources

\* _needs_sync with the comparison of line 124 written >=.
_needs_sync_inclusive(file, source) ==
    IF source.status = "none" THEN TRUE
    ELSE IF source.last_synced = 0 THEN TRUE
    ELSE file.modified_time >= source.last_synced

\* _needs_sync: a file is new, or was modified after it was last synced.
_needs_sync(file, source) ==
    IF source.status = "none" THEN TRUE
    ELSE IF source.last_synced = 0 THEN TRUE
    ELSE file.modified_time > source.last_synced

\* _upsert_kb_source without last_synced = NOW(): the column stays NULL.
_upsert_kb_source_unstamped(sources, file_id, filename, category, modified_time, chunk_count, t) ==
    [sources EXCEPT ![file_id] =
        [filename |-> filename, category |-> category,
         modified_time |-> modified_time, last_synced |-> 0,
         chunk_count |-> chunk_count, status |-> "active"]]

\* _upsert_kb_source whose DO UPDATE leaves chunk_count out.
_upsert_kb_source_keeps_count(sources, file_id, filename, category, modified_time, chunk_count, t) ==
    [sources EXCEPT ![file_id] =
        [filename |-> filename, category |-> category,
         modified_time |-> modified_time, last_synced |-> t,
         chunk_count |-> IF sources[file_id].status = "none" THEN chunk_count
                         ELSE sources[file_id].chunk_count,
         status |-> "active"]]

\* _upsert_kb_source: INSERT ... ON CONFLICT (file_id) DO UPDATE, at NOW() = t.
_upsert_kb_source(sources, file_id, filename, category, modified_time, chunk_count, t) ==
    [sources EXCEPT ![file_id] =
        [filename |-> filename, category |-> category,
         modified_time |-> modified_time, last_synced |-> t,
         chunk_count |-> chunk_count, status |-> "active"]]

\* The rows of _upsert_file_chunks with an id made of file id and position.
NewRowsSameIds(drive_file_id, filename, source_category, chs, g) ==
    {[id |-> <<drive_file_id, idx>>, content |-> chs[idx + 1],
      source_category |-> source_category, drive_file_id |-> drive_file_id,
      filename |-> filename, chunk_index |-> idx] : idx \in 0..(Len(chs) - 1)}

\* The rows of _upsert_file_chunks with enumerate(chunks, 1).
NewRowsFromOne(drive_file_id, filename, source_category, chs, g) ==
    {[id |-> <<g, idx>>, content |-> chs[idx + 1],
      source_category |-> source_category, drive_file_id |-> drive_file_id,
      filename |-> filename, chunk_index |-> idx + 1] : idx \in 0..(Len(chs) - 1)}

\* The rows _upsert_file_chunks inserts: one per chunk, chunk_index from
\* enumerate, id from gen_random_uuid() (batch g of fresh ids).
NewRows(drive_file_id, filename, source_category, chs, g) ==
    {[id |-> <<g, idx>>, content |-> chs[idx + 1],
      source_category |-> source_category, drive_file_id |-> drive_file_id,
      filename |-> filename, chunk_index |-> idx] : idx \in 0..(Len(chs) - 1)}

\* Rows without their ids.
Unidentified(rows) ==
    {[content |-> r.content, source_category |-> r.source_category,
      drive_file_id |-> r.drive_file_id, filename |-> r.filename,
      chunk_index |-> r.chunk_index] : r \in rows}

\* The DELETE run outside the transaction: it is committed at once.
ExecDeleteAutocommit(rows, t, f) ==
    [rows |-> rows \ FileRows(rows, f),
     tx |-> [open |-> TRUE, deleted |-> t.deleted, inserted |-> t.inserted]]

\* DELETE FROM kb_chunks WHERE drive_file_id = f, inside the transaction t:
\* the committed rows stay as they are until the commit.
ExecDelete(rows, t, f) ==
    [rows |-> rows,
     tx |-> [open |-> TRUE,
             deleted |-> t.deleted \cup {r.id : r \in FileRows(rows, f)},
             inserted |-> t.inserted]]

\* INSERT INTO kb_chunks ... executemany, inside the transaction t.
ExecInsert(t, new) == [t EXCEPT !.inserted = t.inserted \cup new]

\* The end of "async with conn.transaction()": the delta becomes visible.
Commit(rows, t) == {r \in rows : r.id \notin t.deleted} \cup t.inserted

\* The files that are active in kb_sources and no longer listed.
DeletedIds(existing, listing) ==
    {fid \in Files : /\ existing[fid].status = "active"
                     /\ fid \notin {listing[i].id : i \in 1..Len(listing)}}

\* _remove_deleted_files: one transaction over all the ids.
RemovedChunks(rows, ids) == {r \in rows : r.drive_file_id \notin ids}

RemovedSources(sources, ids, t) ==
    [f \in Files |->
        IF f \in ids /\ sources[f].status # "none"
        THEN [sources[f] EXCEPT !.status = "deleted", !.last_synced = t]
        ELSE sources[f]]

\* kb_sources and kb_chunks agree on file f: an active row counts the chunks
\* stored, a deleted row has none.
Consistent(rows, sources, f) ==
    /\ sources[f].status = "active" =>
           sources[f].chunk_count = Cardinality(FileRows(rows, f))
    /\ sources[f].status = "deleted" => FileRows(rows, f) = {}

cur == drive_files[k]

ResetFile == chunks' = <<>> /\ inserted' = 0

ResetLocals ==
    /\ force' = FALSE
    /\ drive_files' = <<>>
    /\ existing_sources' = [f \in Files |-> NoSource]
    /\ deleted_ids' = {}
    /\ k' = 1
    /\ files_synced' = 0
    /\ files_skipped' = 0
    /\ chunks_inserted' = 0
    /\ errors' = <<>>
    /\ ResetFile

ResetHistory ==
    /\ no_text' = {}
    /\ written' = {}
    /\ pre_rows' = {}
    /\ raised' = <<>>
    /\ start_chunks' = {}
    /\ good' = TRUE
    /\ prev' = "other"
    /\ dirty' = FALSE

\* sync_drive, lines 137-153: the listing, the snapshot of kb_sources and the
\* files to remove.
Start(fc) ==
    /\ pc = "idle"
    /\ force' = fc
    /\ drive_files' = list_drive_files(remote)
    /\ existing_sources' = _get_all_kb_sources(kb_sources)
    /\ deleted_ids' = DeletedIds(existing_sources', drive_files')
    /\ pc' = IF deleted_ids' # {} THEN "remove" ELSE "loop"
    /\ k' = 1
    /\ files_synced' = 0
    /\ files_skipped' = 0
    /\ chunks_inserted' = 0
    /\ errors' = <<>>
    /\ ResetFile
    /\ outcome' = "other"
    /\ prev' = IF fc \/ outcome = "raised" THEN "other" ELSE outcome
    /\ start_chunks' = kb_chunks
    /\ dirty' = FALSE
    /\ good' = \A f \in Files : Consistent(kb_chunks, kb_sources, f)
    /\ raised' = <<>>
    /\ pre_rows' = {}
    /\ no_text' = {}
    /\ written' = {}
    /\ UNCHANGED aside
    /\ UNCHANGED <<remote, now, store, tx, ever_written, view>>

\* A failure of list_drive_files that is taken for an empty listing.
StartFailAsEmptyListing ==
    /\ pc = "idle"
    /\ force' = FALSE
    /\ drive_files' = <<>>
    /\ existing_sources' = _get_all_kb_sources(kb_sources)
    /\ deleted_ids' = DeletedIds(existing_sources', drive_files')
    /\ pc' = IF deleted_ids' # {} THEN "remove" ELSE "loop"
    /\ outcome' = "other"
    /\ UNCHANGED aside
    /\ UNCHANGED <<remote, now, store, k, files_synced, files_skipped,
                   chunks_inserted, errors, chunks, inserted, tx, history, view>>

\* list_drive_files or _get_all_kb_sources raises: so does sync_drive, before
\* any store write.
StartFail ==
    /\ pc = "idle"
    /\ outcome' = "raised"
    /\ UNCHANGED aside
    /\ UNCHANGED <<remote, now, store, pc, locals, tx, history, view>>

\* sync_drive, lines 156-158: one transaction removes every vanished file.
RemoveOk ==
    /\ pc = "remove"
    /\ kb_chunks' = RemovedChunks(kb_chunks, deleted_ids)
    /\ kb_sources' = RemovedSources(kb_sources, deleted_ids, now)
    /\ pc' = "loop"
    /\ UNCHANGED aside
    /\ UNCHANGED <<remote, now, gen, locals, tx, outcome, history, view>>

\* _remove_deleted_files raises: the transaction is rolled back and the
\* exception leaves sync_drive.
RemoveFail ==
    /\ pc = "remove"
    /\ pc' = "idle"
    /\ outcome' = "other"
    /\ ResetLocals
    /\ ResetHistory
    /\ UNCHANGED aside
    /\ UNCHANGED <<remote, now, store, tx, ever_written, view>>

\* The per-file step without its except clause: the exception leaves
\* sync_drive.
ExceptPropagates ==
    /\ pc' = "idle"
    /\ outcome' = "other"
    /\ tx' = NoTx
    /\ ResetLocals
    /\ ResetHistory
    /\ view' = "none"
    /\ UNCHANGED aside
    /\ UNCHANGED <<remote, now, store, ever_written>>

\* sync_drive, lines 221-223: the except clause of the per-file step.  The open
\* transaction, if any, is rolled back by its context manager on the way out.
Except ==
    /\ errors' = Append(errors, cur.name)
    /\ raised' = Append(raised, cur.id)
    /\ k' = k + 1
    /\ pc' = "loop"
    /\ tx' = NoTx
    /\ ResetFile
    /\ view' = "none"
    /\ pre_rows' = {}
    /\ UNCHANGED aside
    /\ UNCHANGED <<remote, now, store, force, drive_files, existing_sources,
                   deleted_ids, files_synced, files_skipped, chunks_inserted,
                   outcome, start_chunks, dirty, good, prev, ever_written,
                   no_text, written>>

\* sync_drive, lines 165-171: the change-detection rule.
Check ==
    /\ pc = "loop"
    /\ k <= Len(drive_files)
    /\ LET source == existing_sources[cur.id] IN
       IF ~force /\ ~_needs_sync(cur, source)
       THEN /\ files_skipped' = files_skipped + 1
            /\ k' = k + 1
            /\ UNCHANGED <<pc, pre_rows>>
       ELSE /\ pc' = "fetch"
            /\ pre_rows' = FileRows(kb_chunks, cur.id)
            /\ UNCHANGED <<files_skipped, k>>
    /\ UNCHANGED aside
    /\ UNCHANGED <<remote, now, store, force, drive_files, existing_sources,
                   deleted_ids, files_synced, chunks_inserted, errors, chunks,
                   inserted, tx, outcome, raised, start_chunks, dirty, good, prev,
                   ever_written, no_text, written, view>>

\* sync_drive, lines 174-200: download what the remote holds now, parse it,
\* give up on a file without text, chunk it and embed the chunks.
FetchOk ==
    /\ pc = "fetch"
    /\ remote[cur.id].present
    /\ LET text == parse_content(remote[cur.id].ver)
           chs == chunk_text(text)
       IN IF strip(text) = "" \/ chs = <<>>
          THEN /\ k' = k + 1
               /\ pc' = "loop"
               /\ pre_rows' = {}
               /\ no_text' = no_text \cup {cur.id}
               /\ ResetFile
          ELSE /\ chunks' = chs
               /\ pc' = "delete"
               /\ UNCHANGED <<k, inserted, pre_rows, no_text>>
    /\ UNCHANGED aside
    /\ UNCHANGED <<remote, now, store, force, drive_files, existing_sources,
                   deleted_ids, files_synced, files_skipped, chunks_inserted,
                   errors, tx, outcome, raised, start_chunks, dirty, good, prev,
                   ever_written, written, view>>

\* download_file, parse_content, chunk_text or embed_documents raises.
FetchFail == pc = "fetch" /\ Except

\* A DELETE of the rows of file f waits while an open transaction of another
\* connection has deleted one of them: the row is locked until that one ends.
Locked(f, open, deleted) ==
    open /\ {r.id : r \in FileRows(kb_chunks, f)} \cap deleted # {}

\* _upsert_file_chunks, lines 70-74.
TxDelete ==
    /\ pc = "delete"
    /\ ~Locked(cur.id, other.pc = "insert", other.deleted)
    /\ LET r == ExecDelete(kb_chunks, tx, cur.id) IN
       /\ kb_chunks' = r.rows
       /\ tx' = r.tx
    /\ pc' = "insert"
    /\ UNCHANGED aside
    /\ UNCHANGED <<remote, now, kb_sources, gen, locals, outcome, history, view>>

\* _upsert_file_chunks, lines 75-95: the rows are inserted, the transaction
\* commits and the call returns len(chunks).  Once MaxGen batches of ids have
\* been handed out an insert can only fail.
TxInsert ==
    /\ pc = "insert"
    /\ gen < MaxGen
    /\ gen' = gen + 1
    /\ kb_chunks' = Commit(kb_chunks,
           ExecInsert(tx, NewRows(cur.id, cur.name, cur.category, chunks, gen')))
    /\ tx' = NoTx
    /\ inserted' = Len(chunks)
    /\ ever_written' = ever_written \cup {cur.id}
    /\ pc' = "source"
    /\ UNCHANGED aside
    /\ UNCHANGED <<remote, now, kb_sources, force, drive_files, existing_sources,
                   deleted_ids, k, files_synced, files_skipped, chunks_inserted,
                   errors, chunks, outcome, pre_rows, raised, start_chunks, dirty,
                   good, prev, no_text, written, view>>

\* A statement of the transaction, or its commit, fails: it is rolled back.
TxFail == pc \in {"delete", "insert"} /\ Except

\* Lines 211-219 with chunks_inserted counting the files.
UpsertSourceOkCountsFiles ==
    /\ pc = "source"
    /\ kb_sources' = _upsert_kb_source(kb_sources, cur.id, cur.name, cur.category,
                                       cur.modified_time, inserted, now)
    /\ files_synced' = files_synced + 1
    /\ chunks_inserted' = chunks_inserted + 1
    /\ k' = k + 1
    /\ pc' = "loop"
    /\ ResetFile
    /\ view' = "none"
    /\ pre_rows' = {}
    /\ written' = written \cup {<<cur.id, inserted>>}
    /\ UNCHANGED aside
    /\ UNCHANGED <<remote, now, kb_chunks, gen, force, drive_files,
                   existing_sources, deleted_ids, files_skipped, errors, tx, outcome,
                   raised, start_chunks, dirty, good, prev, ever_written, no_text>>

\* sync_drive, lines 211-219.
UpsertSourceOk ==
    /\ pc = "source"
    /\ kb_sources' = _upsert_kb_source(kb_sources, cur.id, cur.name, cur.category,
                                       cur.modified_time, inserted, now)
    /\ files_synced' = files_synced + 1
    /\ chunks_inserted' = chunks_inserted + inserted
    /\ k' = k + 1
    /\ pc' = "loop"
    /\ ResetFile
    /\ view' = "none"
    /\ pre_rows' = {}
    /\ written' = written \cup {<<cur.id, inserted>>}
    /\ UNCHANGED aside
    /\ UNCHANGED <<remote, now, kb_chunks, gen, force, drive_files,
                   existing_sources, deleted_ids, files_skipped, errors, tx, outcome,
                   raised, start_chunks, dirty, good, prev, ever_written, no_text>>

\* _upsert_kb_source raises after the chunks were committed.
UpsertSourceFail == pc = "source" /\ Except

\* sync_drive, lines 225-232: the dict returned.
ReturnValue ==
    [files_synced |-> files_synced, files_skipped |-> files_skipped,
     files_deleted |-> Cardinality(deleted_ids),
     chunks_inserted |-> chunks_inserted, errors |-> errors]

\* The loop is over: the pass is complete and about to return ReturnValue.
Done == pc = "loop" /\ k > Len(drive_files)

Return ==
    /\ Done
    /\ outcome' = IF force \/ dirty THEN "other"
                   ELSE IF ReturnValue.errors = <<>> THEN "clean" ELSE "errors"
    /\ pc' = "idle"
    /\ ResetLocals
    /\ ResetHistory
    /\ UNCHANGED aside
    /\ UNCHANGED <<remote, now, store, tx, ever_written, view>>

\* The process stops: what is committed stays, the open transaction is lost.
\* The stop is remembered when it came between two store transactions, the
\* store consistent and the remote unchanged since the pass listed it.
Crash ==
    /\ pc # "idle"
    /\ pc' = "idle"
    /\ outcome' = IF good /\ ~dirty /\ ~tx.open THEN "crashed" ELSE "other"
    /\ tx' = NoTx
    /\ ResetLocals
    /\ ResetHistory
    /\ view' = "none"
    /\ UNCHANGED aside
    /\ UNCHANGED <<remote, now, store, ever_written>>

\* ------------------------------------------------- a second call of sync_drive
\* Nothing keeps two calls of sync_drive from running at once.  The second
\* call is at work on one listed file f: lines 165-200, it has the file's
\* entry of its listing, finds it due (or is forced) and downloads and chunks
\* what the remote holds.
OtherFetch(f, fc) ==
    /\ other.pc = "idle"
    /\ remote[f].present
    /\ LET file == [id |-> f, name |-> RemoteName(f, remote[f].ver),
                    category |-> RemoteCategory(f, remote[f].ver),
                    modified_time |-> remote[f].mtime]
           chs == chunk_text(parse_content(remote[f].ver))
       IN /\ fc \/ _needs_sync(file, _get_all_kb_sources(kb_sources)[f])
          /\ chs # <<>>
          /\ other' = [pc |-> "delete", id |-> f, name |-> file.name,
                       category |-> file.category,
                       modified_time |-> file.modified_time, chunks |-> chs,
                       deleted |-> {}, inserted |-> 0]
    /\ UNCHANGED <<remote, now, store, pc, locals, tx, outcome, history, view,
                   retrieval, chunking>>

\* Its _upsert_file_chunks, lines 70-74.
OtherTxDelete ==
    /\ other.pc = "delete"
    /\ ~Locked(other.id, tx.open, tx.deleted)
    /\ other' = [other EXCEPT
           !.pc = "insert",
           !.deleted = ExecDelete(kb_chunks, NoTx, other.id).tx.deleted]
    /\ UNCHANGED <<remote, now, store, pc, locals, tx, outcome, history, view,
                   retrieval, chunking>>

\* Its _upsert_file_chunks, lines 75-95.
OtherTxInsert ==
    /\ other.pc = "insert"
    /\ gen < MaxGen
    /\ gen' = gen + 1
    /\ kb_chunks' = Commit(kb_chunks,
           ExecInsert([open |-> TRUE, deleted |-> other.deleted, inserted |-> {}],
                      NewRows(other.id, other.name, other.category, other.chunks,
                              gen')))
    /\ other' = [other EXCEPT !.pc = "source", !.deleted = {},
                              !.inserted = Len(other.chunks)]
    /\ UNCHANGED <<remote, now, kb_sources, pc, locals, tx, outcome, history,
                   view, retrieval, chunking>>

\* Its lines 211-219.
OtherUpsertSource ==
    /\ other.pc = "source"
    /\ kb_sources' = _upsert_kb_source(kb_sources, other.id, other.name,
                                       other.category, other.modified_time,
                                       other.inserted, now)
    /\ other' = [other EXCEPT !.pc = "done"]
    /\ UNCHANGED <<remote, now, kb_chunks, gen, pc, locals, tx, outcome,
                   history, view, retrieval, chunking>>

\* It is through with the file.
OtherReturn ==
    /\ other.pc = "done"
    /\ other' = NoOther
    /\ UNCHANGED <<remote, now, store, pc, locals, tx, outcome, history, view,
                   retrieval, chunking>>

\* --------------------------------------------------------------- environment
\* A change of a file the pass is not working on commutes with the steps of
\* the pass: it is taken between two passes.  A change of the file being
\* processed races with its download (it comes before it) and with the write
\* of its SourceRecord (it comes after the download); the statements of the
\* chunk transaction read neither the remote nor the clock.
MayChange(f) ==
    \/ pc = "idle"
    \/ pc \in {"fetch", "source"} /\ cur.id = f

\* The clock is read by the remote at a change, and by the store when it
\* removes files and when it writes a SourceRecord: it ticks before those.
Tick ==
    /\ \/ pc \in {"idle", "remove", "source"}
       \/ \E f \in Mutable : MayChange(f)
    /\ now < MaxClock
    /\ now' = now + 1
    /\ UNCHANGED aside
    /\ UNCHANGED <<remote, store, pc, locals, tx, outcome, history, view>>

\* History: a change of the remote ends the stretch without remote change
\* that the last call, and the call before it, are remembered for.
Changed ==
    /\ outcome' = "other"
    /\ prev' = "other"
    /\ start_chunks' = {}
    /\ dirty' = (pc # "idle")

\* The remote stamps a change with the time of the change.
RemotePut(f, v) ==
    /\ MayChange(f)
    /\ remote[f] # [present |-> TRUE, ver |-> v, mtime |-> now]
    /\ remote' = [remote EXCEPT ![f] = [present |-> TRUE, ver |-> v, mtime |-> now]]
    /\ Changed
    /\ UNCHANGED aside
    /\ UNCHANGED <<now, store, pc, locals, tx, pre_rows, raised, good,
                   ever_written, no_text, written, view>>

RemoteDelete(f) ==
    /\ MayChange(f)
    /\ remote[f].present
    /\ remote' = [remote EXCEPT ![f] = Absent]
    /\ Changed
    /\ UNCHANGED aside
    /\ UNCHANGED <<now, store, pc, locals, tx, pre_rows, raised, good,
                   ever_written, no_text, written, view>>

\* A file that left the listing comes back as it was (moved out of the
\* folders and back, restored from the bin): the remote reports the
\* modification time the file had, and the content it had, when it was synced.
RemoteRestore(f) ==
    /\ MayChange(f)
    /\ ~remote[f].present
    /\ kb_sources[f].status = "deleted"
    /\ remote' = [remote EXCEPT ![f] =
           [present |-> TRUE,
            ver |-> IF kb_sources[f].category = "projects" THEN 2 ELSE 1,
            mtime |-> kb_sources[f].modified_time]]
    /\ Changed
    /\ UNCHANGED aside
    /\ UNCHANGED <<now, store, pc, locals, tx, pre_rows, raised, good,
                   ever_written, no_text, written, view>>

\* A reader's statement over kb_chunks while the current file is being
\* replaced, after the DELETE of the replace was executed: it sees the
\* committed rows of the file, which are the rows from before the replace
\* ("old"), the rows the replace writes ("new"), or something else ("torn").
Read ==
    /\ pc \in {"insert", "source"}
    /\ LET seen == FileRows(kb_chunks, cur.id)
           new == NewRows(cur.id, cur.name, cur.category, chunks, 0)
       IN view' = IF seen = pre_rows THEN "old"
                  ELSE IF Unidentified(seen) = Unidentified(new) THEN "new"
                  ELSE "torn"
    /\ UNCHANGED aside
    /\ UNCHANGED <<remote, now, store, pc, locals, tx, outcome, history>>

\* ------------------------------------------- rag/chunking.py, on characters
\* A text is a sequence of characters; " " is the whitespace.
Chars == {"a", " "}

Texts == UNION {[1..n -> Chars] : n \in 0..MaxText}

RECURSIVE lstrip(_)
lstrip(c) == IF c # <<>> /\ Head(c) = " " THEN lstrip(Tail(c)) ELSE c

RECURSIVE rstrip(_)
rstrip(c) ==
    IF c # <<>> /\ c[Len(c)] = " " THEN rstrip(SubSeq(c, 1, Len(c) - 1)) ELSE c

\* str.strip()
str_strip(c) == rstrip(lstrip(c))

\* The ways a splitter can go on after a piece that ended at character e of a
\* text of n characters: the next piece starts at most overlap characters
\* before e + 1, ends after e and has at most chunk_size characters.
RECURSIVE Pieces(_, _, _, _)
Pieces(n, e, size, ov) ==
    IF e = n THEN {<<>>}
    ELSE UNION {{<<p>> \o rest : rest \in Pieces(n, p[2], size, ov)} :
                   p \in {q \in (1..n) \X (1..n) :
                             /\ q[1] <= e + 1
                             /\ q[1] >= e + 1 - ov
                             /\ e > 0 => q[1] > 1
                             /\ q[2] > e
                             /\ q[2] - q[1] + 1 <= size}}

\* splitter.split_text(text): the splitter is a library.  Its answers are
\* the lists of pieces of the text, in order, that cover it, each at most
\* chunk_size long and sharing at most overlap characters with the one before.
split_text(str, size, ov) ==
    {[i \in 1..Len(c) |-> SubSeq(str, c[i][1], c[i][2])] :
        c \in Pieces(Len(str), 0, size, ov)}

\* chunk_text, lines 13-28, on a text of characters: the answers it can
\* return, one per answer of the splitter.
chunk_text_sized(str, size, ov) ==
    IF str = <<>> \/ str_strip(str) = <<>> THEN {<<>>}
    ELSE {SelectSeq([i \in 1..Len(ps) |-> str_strip(ps[i])],
                    LAMBDA c : str_strip(c) # <<>>) :
             ps \in split_text(str, size, ov)}

ResetChunking ==
    /\ txt' = <<>>
    /\ chunk_size' = 1
    /\ overlap' = 0
    /\ result' = <<>>

\* chunk_text is called.
ChunkCall(str, size, ov) ==
    /\ cpc = "idle"
    /\ cpc' = "split"
    /\ txt' = str
    /\ chunk_size' = size
    /\ overlap' = ov
    /\ UNCHANGED <<result, kb_chunks, syncing, retrieval>>

\* Lines 13-28.
ChunkOk ==
    /\ cpc = "split"
    /\ result' \in chunk_text_sized(txt, chunk_size, overlap)
    /\ cpc' = "returned"
    /\ UNCHANGED <<txt, chunk_size, overlap, kb_chunks, syncing, retrieval>>

\* The caller has the chunks.
ChunkReturn ==
    /\ cpc = "returned"
    /\ cpc' = "idle"
    /\ ResetChunking
    /\ UNCHANGED <<kb_chunks, syncing, retrieval>>

\* --------------------------------------------------------- rag/retriever.py
RRF_K == 60

\* Scores are floats in the source.  They are kept as exact fractions <<n, d>>
\* with d > 0; the sums and comparisons below are those of the floats for the
\* ranks a list can have here.
Zero == <<0, 1>>

Plus(a, b) == <<a[1] * b[2] + b[1] * a[2], a[2] * b[2]>>

Geq(a, b) == a[1] * b[2] >= b[1] * a[2]

Gt(a, b) == a[1] * b[2] > b[1] * a[2]

Min(a, b) == IF a <= b THEN a ELSE b

\* The relevance scores the reranking client answers with, and the thresholds
\* retrieve is called with.
RerankScores == {<<1, 4>>, <<3, 4>>}
Thresholds == {Zero, <<1, 100>>, <<1, 2>>}

\* The values of the categories argument: None or [] (no filter), or a list.
CategoryFilters == {{}, {"general"}}

\* Chunk: a row as _dense_search and _fts_search return it.  dense_score and
\* fts_score are carried along by the source and never read: they are left out.
Chunk(r) ==
    [id |-> r.id, content |-> r.content, filename |-> r.filename,
     drive_file_id |-> r.drive_file_id, chunk_index |-> r.chunk_index,
     source_category |-> r.source_category, rrf_score |-> Zero,
     rerank_score |-> Zero]

\* WHERE source_category = ANY(categories), when categories is given.
Eligible(rows, cats) ==
    IF cats # {} THEN {r \in rows : r.source_category \in cats} ELSE rows

\* The answers a statement ORDER BY ... LIMIT limit can give over the rows S:
\* the order is the store's (by cosine distance, by ts_rank).
Ordered(S, limit) ==
    LET n == Min(limit, Cardinality(S)) IN
    {[i \in 1..n |-> Chunk(q[i])] :
        q \in {q \in [1..n -> S] : \A i, j \in 1..n : q[i] = q[j] => i = j}}

\* _dense_search: every row (of the categories) has a distance to the query.
_dense_search(rows, limit, cats) == Ordered(Eligible(rows, cats), limit)

\* _fts_search whose statement leaves out "AND source_category = ANY(...)".
_fts_search_unfiltered(rows, limit, cats) ==
    UNION {Ordered(M, limit) : M \in SUBSET rows}

\* _fts_search: the rows (of the categories) that match the query, whichever
\* they are.
_fts_search(rows, limit, cats) ==
    UNION {Ordered(M, limit) : M \in SUBSET Eligible(rows, cats)}

Has(list, id) == \E i \in 1..Len(list) : list[i].id = id

Rank(list, id) == (CHOOSE i \in 1..Len(list) : list[i].id = id) - 1

\* The score of _rrf_fuse when the second loop assigns instead of adding.
RrfScoreOverwritten(dns, sps, id) ==
    IF Has(sps, id) THEN <<1, RRF_K + Rank(sps, id) + 1>>
    ELSE <<1, RRF_K + Rank(dns, id) + 1>>

\* The score _rrf_fuse accumulates for a chunk id, lines 128-133.
RrfScore(dns, sps, id) ==
    Plus(IF Has(dns, id) THEN <<1, RRF_K + Rank(dns, id) + 1>> ELSE Zero,
         IF Has(sps, id) THEN <<1, RRF_K + Rank(sps, id) + 1>> ELSE Zero)

\* _rrf_fuse without the [:limit] of line 139.
_rrf_fuse_uncut(dns, sps, limit) ==
    LET new == SelectSeq(sps, LAMBDA c : ~Has(dns, c.id))
        ids == [i \in 1..(Len(dns) + Len(new)) |->
                   IF i <= Len(dns) THEN dns[i].id ELSE new[i - Len(dns)].id]
        score(i) == RrfScore(dns, sps, ids[i])
        before(j, i) == \/ Gt(score(j), score(i))
                        \/ ~Gt(score(i), score(j)) /\ j < i
        place(i) == 1 + Cardinality({j \in 1..Len(ids) : before(j, i)})
        at(p) == CHOOSE i \in 1..Len(ids) : place(i) = p
        by_id(i) == IF i <= Len(dns) THEN dns[i] ELSE new[i - Len(dns)]
    IN [p \in 1..Len(ids) |->
           [by_id(at(p)) EXCEPT !.rrf_score = score(at(p))]]

\* _rrf_fuse: the ids in the order the dict receives them (dense, then the
\* new ones of sparse), sorted by score with sorted(..., reverse=True), which
\* is stable, cut at limit; by_id holds the chunk object first seen.
_rrf_fuse(dns, sps, limit) ==
    LET new == SelectSeq(sps, LAMBDA c : ~Has(dns, c.id))
        ids == [i \in 1..(Len(dns) + Len(new)) |->
                   IF i <= Len(dns) THEN dns[i].id ELSE new[i - Len(dns)].id]
        score(i) == RrfScore(dns, sps, ids[i])
        before(j, i) == \/ Gt(score(j), score(i))
                        \/ ~Gt(score(i), score(j)) /\ j < i
        place(i) == 1 + Cardinality({j \in 1..Len(ids) : before(j, i)})
        at(p) == CHOOSE i \in 1..Len(ids) : place(i) = p
        by_id(i) == IF i <= Len(dns) THEN dns[i] ELSE new[i - Len(dns)]
    IN [p \in 1..Min(limit, Len(ids)) |->
           [by_id(at(p)) EXCEPT !.rrf_score = score(at(p))]]

\* rag/reranker.py, rerank: the answers of the reranking client asked for
\* top_k = min(top_k, len(chunks)) results: that many distinct indices in
\* relevance order, each with its relevance score, written to rerank_score.
rerank(chs, tk) ==
    IF chs = <<>> THEN {<<>>}
    ELSE LET n == Min(tk, Len(chs)) IN
         {[i \in 1..n |-> [chs[q[i]] EXCEPT !.rerank_score = sc[i]]] :
             q \in {q \in [1..n -> 1..Len(chs)] :
                       \A i, j \in 1..n : q[i] = q[j] => i = j},
             sc \in {sc \in [1..n -> RerankScores] :
                       \A i \in 1..(n - 1) : Geq(sc[i], sc[i + 1])}}

\* The threshold step with the comparison turned round.
ApplyThresholdInverted(list, th) ==
    IF Gt(th, Zero) THEN SelectSeq(list, LAMBDA c : Geq(th, c.rerank_score))
    ELSE list

\* retrieve, lines 227-230.
ApplyThreshold(list, th) ==
    IF Gt(th, Zero) THEN SelectSeq(list, LAMBDA c : Geq(c.rerank_score, th))
    ELSE list

ResetRetrieve ==
    /\ top_k' = 1
    /\ candidates' = 1
    /\ threshold' = Zero
    /\ categories' = {}
    /\ rerank_enabled' = FALSE
    /\ hybrid_sparse_weight' = 0
    /\ dense' = <<>>
    /\ sparse' = <<>>
    /\ fused' = <<>>
    /\ reranked' = FALSE

\* retrieve, lines 167-170: the arguments, defaults filled in.
Call(tk, cand, th, cats, re, w) ==
    /\ rpc = "idle"
    /\ rpc' = "embed"
    /\ top_k' = tk
    /\ candidates' = cand
    /\ threshold' = th
    /\ categories' = cats
    /\ rerank_enabled' = re
    /\ hybrid_sparse_weight' = w
    /\ UNCHANGED <<dense, sparse, fused, reranked, kb_chunks, syncing, chunking>>

\* retrieve, line 181.
EmbedOk ==
    /\ rpc = "embed"
    /\ rpc' = "dense"
    /\ UNCHANGED <<top_k, candidates, threshold, categories, rerank_enabled,
                   hybrid_sparse_weight, dense, sparse, fused, reranked,
                   kb_chunks, syncing, chunking>>

\* An exception leaves retrieve: nothing catches it.
Propagate ==
    /\ rpc' = "failed"
    /\ UNCHANGED <<top_k, candidates, threshold, categories, rerank_enabled,
                   hybrid_sparse_weight, dense, sparse, fused, reranked,
                   kb_chunks, syncing, chunking>>

\* embed_query raises.
EmbedFail == rpc = "embed" /\ Propagate

\* retrieve, line 187.
DenseOk ==
    /\ rpc = "dense"
    /\ dense' \in _dense_search(kb_chunks, candidates, categories)
    /\ rpc' = "fts"
    /\ UNCHANGED <<top_k, candidates, threshold, categories, rerank_enabled,
                   hybrid_sparse_weight, sparse, fused, reranked, kb_chunks,
                   syncing, chunking>>

\* retrieve, lines 194-203.
FtsOk ==
    /\ rpc = "fts"
    /\ IF hybrid_sparse_weight > 0
       THEN sparse' \in _fts_search(kb_chunks, candidates, categories)
       ELSE sparse' = <<>>
    /\ rpc' = "fuse"
    /\ UNCHANGED <<top_k, candidates, threshold, categories, rerank_enabled,
                   hybrid_sparse_weight, dense, fused, reranked, kb_chunks,
                   syncing, chunking>>

\* A statement of the store raises.
QueryFail == rpc \in {"dense", "fts"} /\ Propagate

\* _dense_search lines 62-74, _fts_search lines 108-120: a row of the answer
\* has a score that float() cannot convert (the score of a row whose embedding
\* is NULL is NULL).  The list comprehension has no handler: the exception
\* leaves the search and retrieve.
DecodeFail ==
    /\ rpc \in {"dense", "fts"}
    /\ rpc = "fts" => hybrid_sparse_weight > 0
    /\ Eligible(kb_chunks, categories) # {}
    /\ Propagate

\* retrieve, lines 206-213.  dense and sparse are not read after this.
Fuse ==
    /\ rpc = "fuse"
    /\ fused' = IF sparse # <<>> THEN _rrf_fuse(dense, sparse, candidates)
                ELSE SubSeq(dense, 1, Min(candidates, Len(dense)))
    /\ rpc' = IF fused' = <<>> THEN "returned" ELSE "rerank"
    /\ dense' = <<>>
    /\ sparse' = <<>>
    /\ UNCHANGED <<top_k, candidates, threshold, categories, rerank_enabled,
                   hybrid_sparse_weight, reranked, kb_chunks, syncing, chunking>>

\* Lines 216-225 without the fused[:top_k] of the else branch.
RerankOkUncut ==
    /\ rpc = "rerank"
    /\ IF rerank_enabled
       THEN /\ fused' \in rerank(fused, top_k)
            /\ reranked' = TRUE
       ELSE UNCHANGED <<fused, reranked>>
    /\ rpc' = "threshold"
    /\ UNCHANGED <<top_k, candidates, threshold, categories, rerank_enabled,
                   hybrid_sparse_weight, dense, sparse, kb_chunks, syncing, chunking>>

\* retrieve, lines 216-225.
RerankOk ==
    /\ rpc = "rerank"
    /\ IF rerank_enabled
       THEN /\ fused' \in rerank(fused, top_k)
            /\ reranked' = TRUE
       ELSE /\ fused' = SubSeq(fused, 1, Min(top_k, Len(fused)))
            /\ UNCHANGED reranked
    /\ rpc' = "threshold"
    /\ UNCHANGED <<top_k, candidates, threshold, categories, rerank_enabled,
                   hybrid_sparse_weight, dense, sparse, kb_chunks, syncing, chunking>>

\* A failure of rerank that is caught: the fused list is used as it is.
RerankFailFallsBack ==
    /\ rpc = "rerank"
    /\ rerank_enabled
    /\ reranked' = TRUE
    /\ fused' = SubSeq(fused, 1, Min(top_k, Len(fused)))
    /\ rpc' = "threshold"
    /\ UNCHANGED <<top_k, candidates, threshold, categories, rerank_enabled,
                   hybrid_sparse_weight, dense, sparse, kb_chunks, syncing, chunking>>

\* rerank raises: its client is not configured, or the call fails.
RerankFail ==
    /\ rpc = "rerank"
    /\ rerank_enabled
    /\ reranked' = TRUE
    /\ rpc' = "failed"
    /\ UNCHANGED <<top_k, candidates, threshold, categories, rerank_enabled,
                   hybrid_sparse_weight, dense, sparse, fused, kb_chunks,
                   syncing, chunking>>

\* retrieve, lines 227-233: fused is what it returns.
Threshold ==
    /\ rpc = "threshold"
    /\ fused' = ApplyThreshold(fused, threshold)
    /\ rpc' = "returned"
    /\ UNCHANGED <<top_k, candidates, threshold, categories, rerank_enabled,
                   hybrid_sparse_weight, dense, sparse, reranked, kb_chunks,
                   syncing, chunking>>

\* The caller has the list, or the exception.
Finish ==
    /\ rpc \in {"returned", "failed"}
    /\ rpc' = "idle"
    /\ ResetRetrieve
    /\ UNCHANGED <<kb_chunks, syncing, chunking>>

\* The rows a sync pass stores for version v of file f.
Stored(f, v) ==
    NewRows(f, RemoteName(f, v), RemoteCategory(f, v),
            chunk_text(parse_content(v)), IF f = "f1" THEN v ELSE v + 2)

\* A sync pass commits the chunk transaction of a file between two calls of
\* retrieve or before one of its two statements.
Ingest(f, v) ==
    /\ rpc \in {"idle", "dense", "fts"}
    /\ kb_chunks' = Commit(kb_chunks,
           ExecInsert(ExecDelete(kb_chunks, NoTx, f).tx, Stored(f, v)))
    /\ kb_chunks' # kb_chunks
    /\ UNCHANGED <<retrieval, syncing, chunking>>

\* ------------------------------------------------------------- specification
Init ==
    /\ remote = [f \in Files |-> IF f \in Mutable THEN Absent
                                  ELSE [present |-> TRUE, ver |-> 1, mtime |-> 1]]
    /\ now = 1
    /\ kb_chunks = {}
    /\ kb_sources = [f \in Files |-> NoSource]
    /\ gen = 0
    /\ pc = "idle"
    /\ force = FALSE
    /\ drive_files = <<>>
    /\ existing_sources = [f \in Files |-> NoSource]
    /\ deleted_ids = {}
    /\ k = 1
    /\ files_synced = 0
    /\ files_skipped = 0
    /\ chunks_inserted = 0
    /\ errors = <<>>
    /\ chunks = <<>>
    /\ inserted = 0
    /\ tx = NoTx
    /\ outcome = "other"
    /\ pre_rows = {}
    /\ raised = <<>>
    /\ start_chunks = {}
    /\ dirty = FALSE
    /\ good = TRUE
    /\ prev = "other"
    /\ ever_written = {}
    /\ view = "none"
    /\ rpc = "idle"
    /\ top_k = 1
    /\ candidates = 1
    /\ threshold = Zero
    /\ categories = {}
    /\ rerank_enabled = FALSE
    /\ hybrid_sparse_weight = 0
    /\ dense = <<>>
    /\ sparse = <<>>
    /\ fused = <<>>
    /\ no_text = {}
    /\ written = {}
    /\ reranked = FALSE
    /\ cpc = "idle"
    /\ txt = <<>>
    /\ chunk_size = 1
    /\ overlap = 0
    /\ result = <<>>
    /\ other = NoOther

Next ==
    \/ \E fc \in BOOLEAN : Start(fc)
    \/ StartFail
    \/ RemoveOk
    \/ RemoveFail
    \/ Check
    \/ FetchOk
    \/ FetchFail
    \/ TxDelete
    \/ TxInsert
    \/ TxFail
    \/ UpsertSourceOk
    \/ UpsertSourceFail
    \/ Return
    \/ Crash
    \/ Tick
    \/ \E f \in Mutable, v \in Versions : RemotePut(f, v)
    \/ \E f \in Mutable : RemoteDelete(f)
    \/ Read

Spec == Init /\ [][Next]_vars

\* sync_drive with a remote where every file can leave the listing and come
\* back as it was.  The first file is put there blank or with two chunks.
NextRemote ==
    \/ \E fc \in BOOLEAN : Start(fc)
    \/ StartFail
    \/ RemoveOk
    \/ RemoveFail
    \/ Check
    \/ FetchOk
    \/ FetchFail
    \/ TxDelete
    \/ TxInsert
    \/ TxFail
    \/ UpsertSourceOk
    \/ UpsertSourceFail
    \/ Return
    \/ Tick
    \/ \E f \in Mutable, v \in Versions \ {1} : RemotePut(f, v)
    \/ \E f \in Files : RemoteDelete(f)
    \/ \E f \in Files : RemoteRestore(f)

SpecRemote == Init /\ [][NextRemote]_vars

\* Two calls of sync_drive at once on one store.
NextTwo ==
    \/ \E fc \in BOOLEAN : Start(fc)
    \/ Check
    \/ FetchOk
    \/ FetchFail
    \/ TxDelete
    \/ TxInsert
    \/ UpsertSourceOk
    \/ Return
    \/ Tick
    \/ \E f \in Files, fc \in BOOLEAN : OtherFetch(f, fc)
    \/ OtherTxDelete
    \/ OtherTxInsert
    \/ OtherUpsertSource
    \/ OtherReturn

SpecTwo == Init /\ [][NextTwo]_vars

\* retrieve against a store that sync passes write to.
NextRetrieve ==
    \/ \E tk \in 1..MaxTopK, cand \in 1..MaxCandidates, th \in Thresholds,
          cats \in CategoryFilters, re \in BOOLEAN, w \in {0, 1} :
           Call(tk, cand, th, cats, re, w)
    \/ EmbedOk
    \/ EmbedFail
    \/ DenseOk
    \/ FtsOk
    \/ QueryFail
    \/ DecodeFail
    \/ Fuse
    \/ RerankOk
    \/ RerankFail
    \/ Threshold
    \/ Finish
    \/ \E f \in Files : \E v \in (IF f \in Mutable THEN Versions ELSE {1}) :
           Ingest(f, v)

SpecRetrieve == Init /\ [][NextRetrieve]_vars

\* chunk_text on the texts of up to MaxText characters.  The splitter refuses
\* an overlap larger than the chunk size.
NextChunk ==
    \/ \E str \in Texts, size \in 1..MaxChunkSize :
           \E ov \in 0..(size - 1) : ChunkCall(str, size, ov)
    \/ ChunkOk
    \/ ChunkReturn

SpecChunk == Init /\ [][NextChunk]_vars

\* -------------------------------------------------------------------- claims
\* The files of the listing of the pass.
Listed == {drive_files[i].id : i \in 1..Len(drive_files)}

\* A per-file step of the pass raises.
Raises == FetchFail \/ TxFail \/ UpsertSourceFail

\* C1: between two passes, every active SourceRecord counts exactly the rows
\* stored for its file and every deleted one has no row, also after a pass in
\* which a step raised or that was stopped between two store writes.
C1_SourceRecordsMatchChunks ==
    pc = "idle" => \A f \in Files : Consistent(kb_chunks, kb_sources, f)

C3_VanishedFilesAreRemoved ==
    Done => \A f \in ever_written \ Listed :
                /\ FileRows(kb_chunks, f) = {}
                /\ kb_sources[f].status = "deleted"

\* C4: when the step of a file raises, whichever statement raised, the rows
\* of the file and its SourceRecord are what they were when the step began.
C4_FailedFileIsUntouched ==
    [][Raises => /\ FileRows(kb_chunks', cur.id) = pre_rows
                 /\ kb_sources'[cur.id] = existing_sources[cur.id]]_vars

\* C5: when the step of a file raises, the name of the file is appended to
\* errors and the pass goes on with the next file of the same listing, under
\* the same rule, its counters kept; it ends by returning its result.
C5_FailureIsRecordedAndPassContinues ==
    [][Raises => /\ errors' = Append(errors, cur.name)
                 /\ pc' = "loop"
                 /\ k' = k + 1
                 /\ <<force, drive_files, existing_sources>>' =
                        <<force, drive_files, existing_sources>>
                 /\ <<files_synced, files_skipped, chunks_inserted>>' =
                        <<files_synced, files_skipped, chunks_inserted>>]_vars

C5_Witness ==
    /\ Done
    /\ raised = <<"f1">>
    /\ errors = <<"a.txt">>
    /\ files_synced = 1
    /\ kb_sources["f2"].status = "active"

\* C6: the pass processes a listed file exactly when force is set, or the file
\* has no SourceRecord, or its modification time is later than last_synced;
\* any other file, one modified exactly at last_synced included, is counted in
\* files_skipped and the store is left as it is.
C6_ProcessedIffDue ==
    [][Check =>
        LET rec == kb_sources[cur.id]
            due == \/ force
                   \/ rec.status = "none"
                   \/ cur.modified_time > rec.last_synced
        IN /\ (pc' = "fetch") <=> due
           /\ ~due => /\ files_skipped' = files_skipped + 1
                      /\ k' = k + 1
                      /\ kb_chunks' = kb_chunks
                      /\ kb_sources' = kb_sources]_vars

C6_Witness ==
    /\ Done /\ ~force
    /\ files_skipped = 2
    /\ \E i \in 1..Len(drive_files) :
           /\ kb_sources[drive_files[i].id].status = "active"
           /\ drive_files[i].modified_time = kb_sources[drive_files[i].id].last_synced

\* C7: a reader of kb_chunks during the replace of a file sees the rows of the
\* file from before the replace or the rows the replace writes, nothing else.
C7_ReaderSeesOldOrNew == view # "torn"

C7_Witness ==
    /\ pc = "insert"
    /\ tx.deleted # {}
    /\ pre_rows # {}
    /\ view = "old"

\* C8: when a sync(force=false) completes after a pass that was stopped, the
\* store consistent before that pass and the remote unchanged since it
\* listed, the SourceRecord of every listed file that the pass did not record
\* in errors is consistent with kb_chunks.
C8_RecoveryRestoresConsistency ==
    (Done /\ ~force /\ prev = "crashed") =>
        \A f \in Listed \ Range(raised) : Consistent(kb_chunks, kb_sources, f)

\* C9: in every committed state the rows of a file have pairwise different
\* positions, and the positions are exactly 0 .. n - 1 for its n rows.
C9_PositionsAreContiguous ==
    \A f \in Files :
        LET rows == FileRows(kb_chunks, f) IN
        /\ \A r1, r2 \in rows : r1.chunk_index = r2.chunk_index => r1 = r2
        /\ {r.chunk_index : r \in rows} = 0..(Cardinality(rows) - 1)

C9_Witness ==
    /\ pc = "source"
    /\ pre_rows # {}
    /\ Cardinality(FileRows(kb_chunks, cur.id)) = 2

\* C10: right after the step of a file succeeds, its SourceRecord is active,
\* carries the listed filename, category and modification time, and its
\* chunk_count is the number of rows kb_chunks holds for the file.
C10_SuccessLeavesRecordConsistent ==
    [][UpsertSourceOk =>
        LET rec == kb_sources'[cur.id] IN
        /\ rec.status = "active"
        /\ rec.filename = cur.name
        /\ rec.category = cur.category
        /\ rec.modified_time = cur.modified_time
        /\ rec.chunk_count = Cardinality(FileRows(kb_chunks', cur.id))]_vars

C10_Witness ==
    /\ pc = "loop" /\ k = 2
    /\ files_synced = 1
    /\ kb_sources["f1"].status = "active"
    /\ kb_sources["f1"].filename = "a2.txt"
    /\ kb_sources["f1"].chunk_count = 2
    /\ gen = 2

\* C11: the list retrieve returns has at most top_k chunks, the reranking on
\* or off, whatever the dense and the lexical statement answered.
C11_AtMostTopK == rpc = "returned" => Len(fused) <= top_k

C11_Witness ==
    /\ rpc = "returned"
    /\ ~rerank_enabled
    /\ top_k = 2
    /\ candidates = 3
    /\ Cardinality(Eligible(kb_chunks, categories)) = 3
    /\ Len(fused) = 2

\* C12: the threshold step keeps a chunk exactly when its final score is at
\* least threshold, the final score being the rerank score when the reranking
\* is on and the fused score when it is off; threshold 0 keeps every chunk.
C12_ThresholdOnFinalScore ==
    [][Threshold =>
        fused' = SelectSeq(fused,
                    LAMBDA c : Geq(IF rerank_enabled THEN c.rerank_score
                                   ELSE c.rrf_score, threshold))]_vars

\* C13: the dense statement is asked for top_k rows when candidates < top_k:
\* it answers with as many rows as the larger of the two allows.
C13_CandidatesRaisedToTopK ==
    [][DenseOk =>
        Len(dense') = Min(IF candidates < top_k THEN top_k ELSE candidates,
                          Cardinality(Eligible(kb_chunks, categories)))]_vars

\* The thresholds two calls are compared for.
ComparedThresholds == Thresholds \cup {<<-1, 2>>, <<1, 4>>, <<3, 4>>, <<1, 1>>}

\* C14: for the list the threshold step receives (the query, the store and
\* the answers of the collaborators fixed), a threshold t2 at least t1 leaves
\* no more chunks than t1.
C14_ThresholdMonotone ==
    rpc = "threshold" =>
        \A t1, t2 \in ComparedThresholds :
            Geq(t2, t1) =>
                Len(ApplyThreshold(fused, t2)) <= Len(ApplyThreshold(fused, t1))

C14_Witness ==
    /\ rpc = "threshold"
    /\ rerank_enabled
    /\ Len(fused) = 2
    /\ Len(ApplyThreshold(fused, <<1, 2>>)) = 1
    /\ Len(ApplyThreshold(fused, <<1, 100>>)) = 2

\* What _rrf_fuse returns for the two lists of the call when nothing is cut.
FusedAll == _rrf_fuse(dense, sparse, Len(dense) + Len(sparse))

\* Chunk a of the fused list is in both lists, chunk b in one only, at a rank
\* that a has in one of its lists.
InBothAndInOne(a, b) ==
    /\ Has(dense, a.id) /\ Has(sparse, a.id)
    /\ \/ /\ Has(dense, b.id) /\ ~Has(sparse, b.id)
          /\ Rank(dense, b.id) = Rank(sparse, a.id)
       \/ /\ Has(sparse, b.id) /\ ~Has(dense, b.id)
          /\ Rank(sparse, b.id) = Rank(dense, a.id)

\* C15: for the two lists retrieve has when it fuses, a chunk that is in both
\* lists gets a fused score strictly higher than a chunk that is in one list
\* only at a rank the first has in a list.
C15_BothListsScoreHigher ==
    rpc = "fuse" =>
        LET F == FusedAll IN
        \A i, j \in 1..Len(F) :
            InBothAndInOne(F[i], F[j]) => Gt(F[i].rrf_score, F[j].rrf_score)

C15_Witness ==
    /\ rpc = "fuse"
    /\ LET F == FusedAll IN
       \E i, j \in 1..Len(F) :
           /\ InBothAndInOne(F[i], F[j])
           /\ Rank(dense, F[i].id) # Rank(sparse, F[i].id)

\* The ids of the two lists of the call.
FusedIds ==
    {dense[i].id : i \in 1..Len(dense)} \cup {sparse[i].id : i \in 1..Len(sparse)}

\* C16: for the two lists retrieve has when it fuses and for every limit,
\* _rrf_fuse returns each id at most once, the ids of
\* the two lists up to limit of them, each with the sum of 1 / (60 + rank + 1)
\* over the lists that hold it (rank from 0), in non-increasing order of score.
C16_FusedScoresAndOrder ==
    rpc = "fuse" =>
    \A limit \in 1..MaxCandidates :
        LET F == _rrf_fuse(dense, sparse, limit) IN
        /\ Len(F) = Min(limit, Cardinality(FusedIds))
        /\ \A i, j \in 1..Len(F) : F[i].id = F[j].id => i = j
        /\ \A i \in 1..Len(F) :
               /\ F[i].id \in FusedIds
               /\ F[i].rrf_score =
                      Plus(IF Has(dense, F[i].id)
                           THEN <<1, 60 + Rank(dense, F[i].id) + 1>> ELSE Zero,
                           IF Has(sparse, F[i].id)
                           THEN <<1, 60 + Rank(sparse, F[i].id) + 1>> ELSE Zero)
        /\ \A i \in 1..(Len(F) - 1) : Geq(F[i].rrf_score, F[i + 1].rrf_score)
        /\ \A i \in 1..Len(F), x \in FusedIds :
               (\A j \in 1..Len(F) : F[j].id # x) =>
                   Geq(F[i].rrf_score, RrfScore(dense, sparse, x))

C16_Witness ==
    /\ rpc = "fuse"
    /\ candidates = 2
    /\ Cardinality(FusedIds) = 3
    /\ Len(dense) = 2 /\ Len(sparse) = 2
    /\ Len(_rrf_fuse(dense, sparse, candidates)) = 2

\* C17: when the embedding call or the reranking call fails, retrieve ends in
\* a failure: it returns no list, empty or unreranked.
C17_FailurePropagates ==
    [][(EmbedFail \/ RerankFail) =>
        rpc' = "failed" /\ fused' = fused]_vars

C17_Witness ==
    /\ rpc = "failed"
    /\ reranked
    /\ fused # <<>>

\* C18: when the dense statement answers with no row, retrieve returns the
\* empty list and does not call the reranking client, whatever the lexical
\* statement answered.
C18_NoDenseHitsNoResult ==
    [][(Fuse /\ dense = <<>>) => (rpc' = "returned" /\ fused' = <<>>)]_vars

\* C19: when the text of a file selected for processing is empty or only
\* whitespace, its step ends there: kb_chunks and kb_sources stay as they are,
\* errors gets no entry and files_synced does not count the file.
C19_BlankTextChangesNothing ==
    [][(FetchOk /\ parse_content(remote[cur.id].ver) \in {"", "  "}) =>
        /\ pc' = "loop"
        /\ k' = k + 1
        /\ <<kb_chunks, kb_sources>>' = <<kb_chunks, kb_sources>>
        /\ errors' = errors
        /\ files_synced' = files_synced]_vars

C19_Witness ==
    /\ pc = "loop" /\ k = 2
    /\ drive_files[1].id = "f1"
    /\ remote["f1"].present /\ remote["f1"].ver = 0
    /\ FileRows(kb_chunks, "f1") # {}
    /\ kb_sources["f1"].status = "active"
    /\ files_synced = 0 /\ files_skipped = 0 /\ errors = <<>>

\* C20: a pass with force set processes every listed file whatever its
\* SourceRecord says and counts it in files_synced when its step succeeds;
\* the rows a chunk transaction writes carry ids that no row stored before,
\* the replaced rows of the file included, carried.
C20_ForceRewritesWithNewIds ==
    [][/\ (Check /\ force) => pc' = "fetch"
       /\ (UpsertSourceOk /\ force) => files_synced' = files_synced + 1
       /\ TxInsert =>
              {r.id : r \in FileRows(kb_chunks', cur.id)} \cap
              {r.id : r \in kb_chunks \cup pre_rows \cup start_chunks} = {}]_vars

C20_Witness ==
    /\ Done /\ force
    /\ files_synced = 1
    /\ existing_sources["f2"].status = "active"
    /\ existing_sources["f2"].last_synced >= remote["f2"].mtime
    /\ {r.id : r \in FileRows(start_chunks, "f2")} = {<<1, 0>>}
    /\ {r.id : r \in FileRows(kb_chunks, "f2")} = {<<2, 0>>}
    /\ Unidentified(FileRows(start_chunks, "f2")) =
           Unidentified(FileRows(kb_chunks, "f2"))

\* C21: when retrieve is given a category filter, the rows the dense statement
\* and the lexical statement answer with, the fused list and the list returned
\* hold only chunks whose source category is in the filter.
C21_OnlyFilteredCategories ==
    (rpc # "idle" /\ categories # {}) =>
        \A l \in {dense, sparse, fused} :
            \A i \in 1..Len(l) : l[i].source_category \in categories

C21_Witness ==
    /\ rpc = "returned"
    /\ categories = {"general"}
    /\ hybrid_sparse_weight > 0
    /\ fused # <<>>
    /\ \E r \in kb_chunks : r.source_category = "projects"

\* The texts that joining the chunks cs in order gives when up to ov
\* characters that a chunk shares with the end of the text so far are removed.
RECURSIVE Rejoin(_, _, _)
Rejoin(acc, cs, ov) ==
    IF cs = <<>> THEN {acc}
    ELSE UNION {Rejoin(acc \o SubSeq(Head(cs), o + 1, Len(Head(cs))), Tail(cs), ov) :
                   o \in {o \in 0..ov :
                             /\ o <= Len(acc) /\ o <= Len(Head(cs))
                             /\ SubSeq(acc, Len(acc) - o + 1, Len(acc)) =
                                    SubSeq(Head(cs), 1, o)}}

\* C22: for a text that holds more than whitespace, the chunks chunk_text
\* returns, joined in order with the overlapping characters removed, give the
\* text back exactly, and no chunk is longer than the chunk size.
C22_ChunksRejoinToText ==
    (cpc = "returned" /\ str_strip(txt) # <<>>) =>
        /\ txt \in Rejoin(<<>>, result, overlap)
        /\ \A i \in 1..Len(result) : Len(result[i]) <= chunk_size

\* C23: when _remove_deleted_files fails on one of several vanished files, the
\* other vanished files are removed all the same: their rows are gone and
\* their SourceRecords are deleted.
C23_OtherRemovalsAreCommitted ==
    [][(RemoveFail /\ Cardinality(deleted_ids) >= 2) =>
        \E x \in deleted_ids :
            \A f \in deleted_ids \ {x} :
                /\ FileRows(kb_chunks', f) = {}
                /\ kb_sources'[f].status = "deleted"]_vars

\* C27: when a sync(force=false) completes, a listed file whose SourceRecord
\* was deleted when the pass began, listed with the modification time the
\* record holds, its step not raising and its text not blank, has an active
\* SourceRecord and rows in kb_chunks.
C27_ReappearedFileIsIndexed ==
    (Done /\ ~force /\ ~dirty) =>
        \A i \in 1..Len(drive_files) :
            LET file == drive_files[i] IN
            (/\ existing_sources[file.id].status = "deleted"
             /\ file.modified_time = existing_sources[file.id].modified_time
             /\ file.id \notin Range(raised)
             /\ remote[file.id].ver # 0) =>
                /\ kb_sources[file.id].status = "active"
                /\ FileRows(kb_chunks, file.id) # {}

\* C24: when a row that the dense or the lexical statement answered with
\* cannot be decoded, retrieve goes on without that row: the call does not
\* fail.
C24_UndecodableChunkIsDropped ==
    [][DecodeFail => rpc' # "failed"]_vars

\* C25: when the listing of the remote or the load of kb_sources fails,
\* sync_drive raises to its caller at once: no row of kb_chunks and no
\* SourceRecord changes, and no file is taken for vanished.
C25_FailedListingWritesNothing ==
    [][StartFail =>
        /\ pc' = "idle"
        /\ outcome' = "raised"
        /\ <<kb_chunks, kb_sources>>' = <<kb_chunks, kb_sources>>
        /\ deleted_ids' = {}]_vars

C25_Witness ==
    /\ pc = "idle"
    /\ outcome = "raised"
    /\ \E f \in Files :
           /\ ~remote[f].present
           /\ kb_sources[f].status = "active"
           /\ FileRows(kb_chunks, f) # {}

\* The chunks of rows, by position.
Contents(rows) == {<<r.chunk_index, r.content>> : r \in rows}

\* The chunks, by position, of what the remote holds of file f now.
RemoteContents(f) ==
    LET chs == chunk_text(parse_content(remote[f].ver)) IN
    {<<i - 1, chs[i]>> : i \in 1..Len(chs)}

\* C26: every change of a remote file is indexed by a later sync(force=false):
\* when a second sync(force=false) in a row completes without error, the
\* remote unchanged since the first of the two listed it, the rows of every
\* listed file with text are the chunks of its remote content.  The files
\* looked at are those last changed before their SourceRecord was stamped:
\* the change came while a pass was processing the file, or before.
C26_ChangeIsEventuallyIndexed ==
    (Done /\ ~force /\ ~dirty /\ prev = "clean" /\ errors = <<>>) =>
        \A f \in Listed :
            (remote[f].ver # 0 /\ remote[f].mtime < kb_sources[f].last_synced) =>
                Contents(FileRows(kb_chunks, f)) = RemoteContents(f)

\* C28: the chunks of one file in the list retrieve returns were all written
\* by one chunk transaction (their ids are of one batch): the call never
\* returns chunks of the old and of the new chunk set of a file together.
C28_OneVersionPerFile ==
    rpc = "returned" =>
        \A i, j \in 1..Len(fused) :
            fused[i].drive_file_id = fused[j].drive_file_id =>
                fused[i].id[1] = fused[j].id[1]

\* The sum of the chunk counts of the files in W.
RECURSIVE SumCounts(_)
SumCounts(W) ==
    IF W = {} THEN 0
    ELSE LET w == CHOOSE w \in W : TRUE IN w[2] + SumCounts(W \ {w})

\* C30: the result of a completed pass counts each listed file once, in
\* files_synced, in files_skipped, in errors or among the files given up for
\* having no text; files_deleted is the number of SourceRecords the pass
\* turned from active to deleted; chunks_inserted is the sum of the chunk
\* counts written for the files counted in files_synced; a pass over an empty
\* listing and an empty registry returns zeros and no error.
C30_ResultAccountsForEveryFile ==
    Done =>
        LET res == ReturnValue
            flipped == {f \in Files : /\ existing_sources[f].status = "active"
                                      /\ kb_sources[f].status = "deleted"}
        IN /\ res.files_synced + res.files_skipped + Len(res.errors)
                  + Cardinality(no_text) = Len(drive_files)
           /\ res.files_synced = Cardinality(written)
           /\ {w[1] : w \in written} \cap (no_text \cup Range(raised)) = {}
           /\ Len(res.errors) = Len(raised)
           /\ res.files_deleted = Cardinality(flipped)
           /\ res.chunks_inserted = SumCounts(written)
           /\ \A w \in written : kb_sources[w[1]].chunk_count = w[2]
           /\ (drive_files = <<>> /\ \A f \in Files : existing_sources[f].status = "none")
                  => res = [files_synced |-> 0, files_skipped |-> 0,
                            files_deleted |-> 0, chunks_inserted |-> 0,
                            errors |-> <<>>]

C30_Witness ==
    /\ Done
    /\ Len(drive_files) = 1
    /\ ReturnValue.files_deleted = 1
    /\ kb_sources["f2"].status = "deleted"
    /\ files_synced = 1
    /\ chunks_inserted = 2

\* C29: when two calls of sync_drive have both synced the same file, its
\* SourceRecord counts the rows kb_chunks holds for it and no two of those
\* rows have the same position, however the chunk transactions and the
\* SourceRecord writes of the two calls were interleaved.
C29_ConcurrentPassesStayConsistent ==
    (Done /\ other.pc = "done" /\ \E w \in written : w[1] = other.id) =>
        LET rows == FileRows(kb_chunks, other.id) IN
        /\ kb_sources[other.id].chunk_count = Cardinality(rows)
        /\ \A r1, r2 \in rows : r1.chunk_index = r2.chunk_index => r1 = r2

====
